---- MODULE Spec2Model ----
(***************************************************************************)
(* Model of the sitemap parser API (src/main.go): the Locator              *)
(* (getSitemapURLFromDomain with isValidDomain, extractDomain and          *)
(* parseSitemapFromRobotsTxt) and the Resolver (parseSitemap).             *)
(*                                                                         *)
(* Strings are sequences of tokens.  A token is one character, except the  *)
(* literals the code itself tests for or formats with ("http://",          *)
(* "https://", "Sitemap:", the candidate paths), which are one token each. *)
(* Expand gives the characters of a scheme token where url.Parse looks     *)
(* inside it.                                                              *)
(***************************************************************************)
EXTENDS Naturals, Sequences, FiniteSets

VARIABLES
    mode,     \* which entry point is exercised: "locate", "scheme" or "resolve"
    runs,     \* the calls of getSitemapURLFromDomain in progress, served in lock-step
    docs,     \* what the network serves at each sitemap address, once it was fetched
    stack,    \* the call stack of parseSitemap
    fetched,  \* the addresses parseSitemap has requested, in order
    ret,      \* what the root call of parseSitemap returned
    rpc       \* the state of the root call of parseSitemap

vars == <<mode, runs, docs, stack, fetched, ret, rpc>>

----------------------------------------------------------------------------
(* Bounds *)

\* Longest domain string (in tokens) given to getSitemapURLFromDomain.
MaxDomainLen == 3
\* Longest robots.txt body (in tokens).
MaxBodyLen == 6

\* Most url/loc entries in one sitemap document.
MaxUrls == 2
\* Most sitemap/loc entries in one sitemap document.
MaxChildren == 2
\* Most sitemap/loc entries in a document that also holds url/loc entries.
MaxLeafChildren == 1

SeqsUpTo(S, n) == UNION {[1..k -> S] : k \in 0..n}

----------------------------------------------------------------------------
(* strings *)

EmptyStr == <<>>

HasPrefix(s, p) == Len(s) >= Len(p) /\ SubSeq(s, 1, Len(p)) = p

TrimPrefix(s, p) == IF HasPrefix(s, p) THEN SubSeq(s, Len(p) + 1, Len(s)) ELSE s

\* The least index of token c in s, 0 when absent.
IndexOf(s, c) ==
    IF \E i \in 1..Len(s) : s[i] = c
    THEN CHOOSE i \in 1..Len(s) : s[i] = c /\ \A j \in 1..(i - 1) : s[j] # c
    ELSE 0

\* The greatest index of token c in s, 0 when absent.
LastIndexOf(s, c) ==
    IF \E i \in 1..Len(s) : s[i] = c
    THEN CHOOSE i \in 1..Len(s) : s[i] = c /\ \A j \in (i + 1)..Len(s) : s[j] # c
    ELSE 0

\* strings.Split(s, "\n"): the lines of s, always at least one.
RECURSIVE Split(_)
Split(s) ==
    LET i == IndexOf(s, "\n")
    IN  IF i = 0 THEN <<s>>
        ELSE <<SubSeq(s, 1, i - 1)>> \o Split(SubSeq(s, i + 1, Len(s)))

----------------------------------------------------------------------------
(* parseSitemapFromRobotsTxt *)

\* The first element of lines that starts with "Sitemap:" decides; the prefix
\* that is trimmed is "Sitemap: " (with the space).
RECURSIVE FirstSitemapLine(_)
FirstSitemapLine(lines) ==
    IF lines = <<>> THEN EmptyStr
    ELSE IF HasPrefix(Head(lines), <<"Sitemap:">>)
         THEN TrimPrefix(Head(lines), <<"Sitemap:", " ">>)
         ELSE FirstSitemapLine(Tail(lines))

parseSitemapFromRobotsTxt(robotsTxt) == FirstSitemapLine(Split(robotsTxt))

----------------------------------------------------------------------------
(* net/url, as isValidDomain and extractDomain use it *)

\* The characters of a string: a scheme token is a word, a colon and two slashes.
RECURSIVE Expand(_)
Expand(s) ==
    IF s = <<>> THEN <<>>
    ELSE (CASE Head(s) = "http://"  -> <<"http", ":", "/", "/">>
            [] Head(s) = "https://" -> <<"https", ":", "/", "/">>
            [] OTHER                -> <<Head(s)>>) \o Expand(Tail(s))

IsLetter(c) == c \in {"a", "http", "https"}
IsDigit(c) == c = "8"

\* url.getScheme: [err, scheme, rest].
getScheme(s) ==
    LET stops == {i \in 1..Len(s) : ~IsLetter(s[i]) /\ ~(IsDigit(s[i]) /\ i > 1)}
        k == CHOOSE i \in stops : \A j \in stops : i <= j
    IN  IF stops = {} THEN [err |-> FALSE, scheme |-> <<>>, rest |-> s]
        ELSE IF s[k] = ":"
             THEN IF k = 1
                  THEN [err |-> TRUE, scheme |-> <<>>, rest |-> <<>>]
                  ELSE [err |-> FALSE, scheme |-> SubSeq(s, 1, k - 1),
                        rest |-> SubSeq(s, k + 1, Len(s))]
             ELSE [err |-> FALSE, scheme |-> <<>>, rest |-> s]

\* url.validOptionalPort: empty, or a colon followed by digits only.
validOptionalPort(port) ==
    \/ port = <<>>
    \/ /\ port[1] = ":"
       /\ \A i \in 2..Len(port) : IsDigit(port[i])

\* url.parseHost: the port after the last colon is checked, then the host must
\* hold no character that needs escaping (of the tokens here: the space).
parseHost(host) ==
    LET i == LastIndexOf(host, ":")
    IN  IF i # 0 /\ ~validOptionalPort(SubSeq(host, i, Len(host)))
        THEN [err |-> TRUE, host |-> <<>>]
        ELSE IF \E j \in 1..Len(host) : host[j] \in {" ", "/", "@"}
             THEN [err |-> TRUE, host |-> <<>>]
             ELSE [err |-> FALSE, host |-> host]

\* url.validUserinfo: of the tokens here, all but the space and the slash.
validUserinfo(u) == \A j \in 1..Len(u) : u[j] \notin {" ", "/"}

\* url.parseAuthority: the host is what follows the last "@".
parseAuthority(authority) ==
    LET i == LastIndexOf(authority, "@")
        h == parseHost(SubSeq(authority, i + 1, Len(authority)))
    IN  IF h.err THEN h
        ELSE IF i # 0 /\ ~validUserinfo(SubSeq(authority, 1, i - 1))
             THEN [err |-> TRUE, host |-> <<>>]
             ELSE h

\* url.Parse: [err, host].  No token here is "#" or "?", so the fragment and
\* the query are empty.
urlParse(rawURL) ==
    LET s == Expand(rawURL)
        g == getScheme(s)
        rest == g.rest
        seg == IF IndexOf(rest, "/") = 0 THEN rest
               ELSE SubSeq(rest, 1, IndexOf(rest, "/") - 1)
        after == SubSeq(rest, 3, Len(rest))
        authority == IF IndexOf(after, "/") = 0 THEN after
                     ELSE SubSeq(after, 1, IndexOf(after, "/") - 1)
    IN  IF g.err THEN [err |-> TRUE, host |-> <<>>]
        ELSE IF ~HasPrefix(rest, <<"/">>)
             THEN IF g.scheme # <<>>
                  THEN [err |-> FALSE, host |-> <<>>]
                  ELSE [err |-> IndexOf(seg, ":") # 0, host |-> <<>>]
             ELSE IF HasPrefix(rest, <<"/", "/">>)
                     /\ (g.scheme # <<>> \/ ~HasPrefix(rest, <<"/", "/", "/">>))
                  THEN parseAuthority(authority)
                  ELSE [err |-> FALSE, host |-> <<>>]

----------------------------------------------------------------------------
(* isValidDomain, extractDomain *)

isValidDomain(domain) ==
    IF Len(domain) = 0 THEN FALSE
    ELSE LET d == IF ~HasPrefix(domain, <<"http://">>)
                     /\ ~HasPrefix(domain, <<"https://">>)
                  THEN <<"http://">> \o domain
                  ELSE domain
             parsedURL == urlParse(d)
         IN  IF parsedURL.err THEN FALSE ELSE parsedURL.host # <<>>

\* extractDomain that looks for "http://" alone before it adds a scheme.
extractDomain_HttpOnly(domain) ==
    IF Len(domain) = 0 THEN EmptyStr
    ELSE LET d == IF ~HasPrefix(domain, <<"http://">>)
                  THEN <<"http://">> \o domain
                  ELSE domain
             parsedURL == urlParse(d)
         IN  IF parsedURL.err THEN EmptyStr ELSE parsedURL.host

extractDomain(domain) ==
    IF Len(domain) = 0 THEN EmptyStr
    ELSE LET d == IF ~HasPrefix(domain, <<"http://">>)
                     /\ ~HasPrefix(domain, <<"https://">>)
                  THEN <<"http://">> \o domain
                  ELSE domain
             parsedURL == urlParse(d)
         IN  IF parsedURL.err THEN EmptyStr ELSE parsedURL.host

----------------------------------------------------------------------------
(* getSitemapURLFromDomain *)

StatusOK == 200
\* The statuses other than 200 that the network answers with.
OtherStatuses == {404}

sitemapLocations ==
    << "/test.xml", "/sitemap.xml", "/sitemap1.xml", "/sitemap.txt",
       "/sitemap_index.xml", "/sitemap/", "/sitemap", "/sitemap-index.xml",
       "/sitemaps/", "/sitemaps", "/site-map", "/sitemap-indexes/",
       "/post-sitemap.xml", "/page-sitemap.xml", "/category-sitemap.xml",
       "/tag-sitemap.xml", "/pages-sitemap.xml", "/blog-pages-sitemap.xml",
       "/member-profile-sitemap.xml", "/dynamic-pages-sitemap.xml",
       "/other-pages-sitemap.xml", "/sitemap.xml.gz", "/sitemapindex.xml",
       "/sitemap_index.xml.gz", "/sitemap/index.xml", "/sitemap.xml",
       "/sitemap_map.html", "/wp-sitemap.xml", "/other-pages-sitemap.xml",
       "/category-sitemap.xml", "/tag-sitemap.xml", "/author-sitemap.xml",
       "/post-sitemap", "/sitemaps-2-sitemap.xml", "/page-sitemap" >>

\* fmt.Sprintf("https://%s/robots.txt", domain)
robotsURL(domain) == <<"https://">> \o domain \o <<"/robots.txt">>

\* fmt.Sprintf("https://%s%s", domain, location)
candidateURL(domain, location) == <<"https://">> \o domain \o <<location>>

NoErr == <<>>
ErrInvalid(domain) == <<"InvalidDomain", domain>>
ErrFetch(url) == <<"FetchFailed", url>>
ErrRead(url) == <<"ReadFailed", url>>
ErrNotFound(domain) == <<"NotFound", domain>>

\* A call of getSitemapURLFromDomain that has not started.
NewRun(input) ==
    [pc |-> "start", input |-> input, domain |-> input, idx |-> 0, log |-> <<>>,
     robots |-> <<>>, result |-> EmptyStr, err |-> NoErr]

\* What the client reports for one GET: a request error, or a status; for
\* robots.txt with status 200 also the body, or that reading it failed.
RespErr == [err |-> TRUE, status |-> 0, readErr |-> FALSE, body |-> <<>>]
RespStatus(st) == [err |-> FALSE, status |-> st, readErr |-> FALSE, body |-> <<>>]
RespReadErr == [err |-> FALSE, status |-> StatusOK, readErr |-> TRUE, body |-> <<>>]
RespBody(b) == [err |-> FALSE, status |-> StatusOK, readErr |-> FALSE, body |-> b]

Logged(url, resp) == [url |-> url, err |-> resp.err, status |-> resp.status]

Returns(r, result, err) == [r EXCEPT !.pc = "done", !.result = result, !.err = err]

\* Lines 106-111: the domain is validated, then replaced by its host.
ValidateRun(r) ==
    IF ~isValidDomain(r.input)
    THEN Returns(r, EmptyStr, ErrInvalid(r.input))
    ELSE [r EXCEPT !.pc = "robots", !.domain = extractDomain(r.input)]

\* Lines 117-130: the GET of robots.txt and the read of its body.
RobotsRun(r, resp) ==
    LET url == robotsURL(r.domain)
        q == [r EXCEPT !.log = Append(r.log, Logged(url, resp))]
    IN  IF resp.err THEN Returns(q, EmptyStr, ErrFetch(url))
        ELSE IF resp.status = StatusOK
             THEN IF resp.readErr THEN Returns(q, EmptyStr, ErrRead(url))
                  ELSE [q EXCEPT !.pc = "scan", !.robots = <<resp.body>>]
             ELSE [q EXCEPT !.pc = "probe", !.idx = 1]

\* The scan with its test inverted: a declared sitemap is passed over.
ScanRun_IgnoresDeclared(r) ==
    LET sitemapLoc == parseSitemapFromRobotsTxt(r.robots[1])
    IN  IF sitemapLoc = EmptyStr THEN Returns(r, sitemapLoc, NoErr)
        ELSE [r EXCEPT !.pc = "probe", !.idx = 1, !.robots = <<>>]

\* Lines 131-136: the declared sitemap is returned when there is one; the body
\* goes out of scope when there is none.
ScanRun(r) ==
    LET sitemapLoc == parseSitemapFromRobotsTxt(r.robots[1])
    IN  IF sitemapLoc # EmptyStr THEN Returns(r, sitemapLoc, NoErr)
        ELSE [r EXCEPT !.pc = "probe", !.idx = 1, !.robots = <<>>]

\* The probe with its status test inverted.
ProbeRun_StatusInverted(r, resp) ==
    LET url == candidateURL(r.domain, sitemapLocations[r.idx])
        q == [r EXCEPT !.log = Append(r.log, Logged(url, resp))]
    IN  IF resp.err THEN Returns(q, EmptyStr, ErrFetch(url))
        ELSE IF resp.status # StatusOK THEN Returns(q, url, NoErr)
             ELSE [q EXCEPT !.idx = r.idx + 1]

\* The probe that takes a request error for one more refusal.
ProbeRun_ErrorContinues(r, resp) ==
    LET url == candidateURL(r.domain, sitemapLocations[r.idx])
        q == [r EXCEPT !.log = Append(r.log, Logged(url, resp))]
    IN  IF ~resp.err /\ resp.status = StatusOK THEN Returns(q, url, NoErr)
        ELSE [q EXCEPT !.idx = r.idx + 1]

\* Lines 178-193: one round of the loop over sitemapLocations.
ProbeRun(r, resp) ==
    LET url == candidateURL(r.domain, sitemapLocations[r.idx])
        q == [r EXCEPT !.log = Append(r.log, Logged(url, resp))]
    IN  IF resp.err THEN Returns(q, EmptyStr, ErrFetch(url))
        ELSE IF resp.status = StatusOK THEN Returns(q, url, NoErr)
             ELSE [q EXCEPT !.idx = r.idx + 1]

\* The end of the loop that reports no error.
ExhaustedRun_NoError(r) == Returns(r, EmptyStr, NoErr)

\* Line 196: the loop ended without a return.
ExhaustedRun(r) == Returns(r, EmptyStr, ErrNotFound(r.domain))

----------------------------------------------------------------------------
(* The network and the inputs of the Locator *)

DomainTokens == {"http://", "https://", "a", "8", ":", "/", "@", " "}
BodyTokens == {"Sitemap:", " ", "\n", "u"}

\* Domains given to a single call, and robots.txt bodies served to the three
\* calls that are compared.
LocateInputs == {<<"a">>, <<"https://", "a", "/">>, <<"a", " ">>}
SchemeBodies == {<<>>, <<"Sitemap:", " ", "u">>}

Bodies == IF mode = "locate" THEN SeqsUpTo(BodyTokens, MaxBodyLen) ELSE SchemeBodies

RobotsResponses ==
    {RespErr, RespReadErr} \cup {RespStatus(st) : st \in OtherStatuses}
    \cup {RespBody(b) : b \in Bodies}

ProbeResponses ==
    {RespErr, RespStatus(StatusOK)} \cup {RespStatus(st) : st \in OtherStatuses}

At(p) == {i \in DOMAIN runs : runs[i].pc = p}

Probing == {i \in At("probe") : runs[i].idx <= Len(sitemapLocations)}

ResolverIdle == UNCHANGED <<docs, stack, fetched, ret, rpc>>

Validate ==
    /\ At("start") # {}
    /\ runs' = [i \in DOMAIN runs |->
                  IF i \in At("start") THEN ValidateRun(runs[i]) ELSE runs[i]]
    /\ UNCHANGED mode /\ ResolverIdle

\* The calls are served by one network: the same address gets the same answer.
FetchRobots ==
    /\ At("robots") # {}
    /\ \E net \in [{robotsURL(runs[i].domain) : i \in At("robots")} -> RobotsResponses] :
         runs' = [i \in DOMAIN runs |->
                    IF i \in At("robots")
                    THEN RobotsRun(runs[i], net[robotsURL(runs[i].domain)])
                    ELSE runs[i]]
    /\ UNCHANGED mode /\ ResolverIdle

ScanRobots ==
    /\ At("scan") # {}
    /\ runs' = [i \in DOMAIN runs |->
                  IF i \in At("scan") THEN ScanRun(runs[i]) ELSE runs[i]]
    /\ UNCHANGED mode /\ ResolverIdle

Probe ==
    /\ Probing # {}
    /\ \E net \in [{candidateURL(runs[i].domain, sitemapLocations[runs[i].idx]) :
                      i \in Probing} -> ProbeResponses] :
         runs' = [i \in DOMAIN runs |->
                    IF i \in Probing
                    THEN ProbeRun(runs[i],
                           net[candidateURL(runs[i].domain, sitemapLocations[runs[i].idx])])
                    ELSE runs[i]]
    /\ UNCHANGED mode /\ ResolverIdle

Exhausted ==
    /\ At("probe") \ Probing # {}
    /\ runs' = [i \in DOMAIN runs |->
                  IF i \in At("probe") \ Probing THEN ExhaustedRun(runs[i]) ELSE runs[i]]
    /\ UNCHANGED mode /\ ResolverIdle

ResolverOff ==
    /\ docs = <<>> /\ stack = <<>> /\ fetched = <<>> /\ ret = <<>> /\ rpc = "off"

Init ==
    /\ mode = "locate"
    /\ \E d \in LocateInputs : runs = <<NewRun(d)>>
    /\ ResolverOff

\* The same domain without a scheme, with "http://" and with "https://".
InitScheme ==
    /\ mode = "scheme"
    /\ \E d \in SeqsUpTo(DomainTokens, MaxDomainLen) :
         /\ ~HasPrefix(d, <<"http://">>) /\ ~HasPrefix(d, <<"https://">>)
         /\ runs = <<NewRun(d), NewRun(<<"http://">> \o d), NewRun(<<"https://">> \o d)>>
    /\ ResolverOff

----------------------------------------------------------------------------
(* parseSitemap *)

\* The sitemap addresses the network serves; parseSitemap is called with Root.
Addr == {"/index.xml", "/a.xml", "/b.xml"}
Root == "/index.xml"

\* Deepest call stack the runtime grants parseSitemap.  An address is then on
\* the stack twice, so the calls below it repeat those above it for ever.
MaxDepth == Cardinality(Addr) + 1

\* The k-th url/loc of the document at address a.
Loc(a, k) == <<"loc", a, k>>

\* fmt.Sprintf("Sitemap index: %s", s.Loc)
IndexMarker(loc) == <<"Sitemap index: ", loc>>

\* What the network serves at an address: the GET fails, the body is no XML, or
\* a document with its url/loc entries and its sitemap/loc entries.
Unknown == [kind |-> "unknown", urls |-> <<>>, sitemaps |-> <<>>]
DocsAt(a) ==
    {[kind |-> k, urls |-> <<>>, sitemaps |-> <<>>] : k \in {"fetcherr", "parseerr"}}
    \cup {[kind |-> "xml", urls |-> <<>>, sitemaps |-> c] :
            c \in SeqsUpTo(Addr, MaxChildren)}
    \cup {[kind |-> "xml", urls |-> [k \in 1..n |-> Loc(a, k)], sitemaps |-> c] :
            n \in 1..MaxUrls, c \in SeqsUpTo(Addr, MaxLeafChildren)}

\* A return value of parseSitemap: ([]string, error).
Value(isNil, urls, err) == [isNil |-> isNil, urls |-> urls, err |-> err]
NoValue == Value(TRUE, <<>>, NoErr)
ErrParse(url) == <<"ParseFailed", url>>

Frame(url) ==
    [url |-> url, phase |-> "fetch", sitemaps |-> <<>>, i |-> 0, urls |-> <<>>,
     val |-> NoValue]

Top == stack[Len(stack)]
SetTop(f) == [stack EXCEPT ![Len(stack)] = f]
Returning(f, v) == [f EXCEPT !.phase = "ret", !.val = v]

\* The decision that looks at the sitemap/loc entries first.
AfterFetch_IndexFirst(f, doc) ==
    IF doc.kind = "fetcherr" THEN Returning(f, Value(TRUE, <<>>, ErrFetch(f.url)))
    ELSE IF doc.kind = "parseerr" THEN Returning(f, Value(TRUE, <<>>, ErrParse(f.url)))
    ELSE IF Len(doc.sitemaps) = 0 THEN Returning(f, Value(FALSE, doc.urls, NoErr))
    ELSE [f EXCEPT !.phase = "loop", !.sitemaps = doc.sitemaps, !.i = 1,
                   !.urls = [k \in 1..Len(doc.sitemaps) |-> EmptyStr]]

\* Lines 205-238: the GET, the decoding, the leaf branch, and the slice the
\* index branch starts from (one empty string per sitemap/loc).
AfterFetch(f, doc) ==
    IF doc.kind = "fetcherr" THEN Returning(f, Value(TRUE, <<>>, ErrFetch(f.url)))
    ELSE IF doc.kind = "parseerr" THEN Returning(f, Value(TRUE, <<>>, ErrParse(f.url)))
    ELSE IF Len(doc.urls) > 0 THEN Returning(f, Value(FALSE, doc.urls, NoErr))
    ELSE [f EXCEPT !.phase = "loop", !.sitemaps = doc.sitemaps, !.i = 1,
                   !.urls = [k \in 1..Len(doc.sitemaps) |-> EmptyStr]]

\* The caller that skips a child whose resolution failed.
AfterChild_SkipsFailed(f, v) ==
    [f EXCEPT !.urls = [f.urls EXCEPT ![f.i] = IndexMarker(f.sitemaps[f.i])]
                       \o v.urls,
              !.i = f.i + 1]

\* Lines 240-245: what the caller does with the result of the child it resolved.
AfterChild(f, v) ==
    IF v.err # NoErr THEN Returning(f, Value(TRUE, <<>>, v.err))
    ELSE [f EXCEPT !.urls = [f.urls EXCEPT ![f.i] = IndexMarker(f.sitemaps[f.i])]
                              \o v.urls,
                   !.i = f.i + 1]

LocatorIdle == UNCHANGED <<mode, runs>>

\* http.Get(url) and the decoding of what it returns.
Fetch ==
    /\ rpc = "run" /\ Top.phase = "fetch"
    /\ \E doc \in DocsAt(Top.url) :
         /\ docs[Top.url] \in {Unknown, doc}
         /\ docs' = [docs EXCEPT ![Top.url] = doc]
         /\ stack' = SetTop(AfterFetch(Top, doc))
    /\ fetched' = Append(fetched, Top.url)
    /\ UNCHANGED <<ret, rpc>> /\ LocatorIdle

\* Line 240: the recursive call for the next sitemap/loc.
Recurse ==
    /\ rpc = "run" /\ Top.phase = "loop" /\ Top.i <= Len(Top.sitemaps)
    /\ Len(stack) < MaxDepth
    /\ stack' = Append(stack, Frame(Top.sitemaps[Top.i]))
    /\ UNCHANGED <<docs, fetched, ret, rpc>> /\ LocatorIdle

\* The recursive call that the stack has no room for: the call never returns.
StackOverflow ==
    /\ rpc = "run" /\ Top.phase = "loop" /\ Top.i <= Len(Top.sitemaps)
    /\ Len(stack) = MaxDepth
    /\ rpc' = "overflow"
    /\ UNCHANGED <<docs, stack, fetched, ret>> /\ LocatorIdle

\* The end of the loop, one round late: the round never comes.
LoopEnd_OneLate ==
    /\ rpc = "run" /\ Top.phase = "loop" /\ Top.i > Len(Top.sitemaps) + 1
    /\ stack' = SetTop(Returning(Top, Value(FALSE, Top.urls, NoErr)))
    /\ UNCHANGED <<docs, fetched, ret, rpc>> /\ LocatorIdle

\* Line 248: the loop is over.
LoopEnd ==
    /\ rpc = "run" /\ Top.phase = "loop" /\ Top.i > Len(Top.sitemaps)
    /\ stack' = SetTop(Returning(Top, Value(FALSE, Top.urls, NoErr)))
    /\ UNCHANGED <<docs, fetched, ret, rpc>> /\ LocatorIdle

\* A call returns: to its caller's loop, or, the root call, to the handler.
Return ==
    /\ rpc = "run" /\ Top.phase = "ret"
    /\ IF Len(stack) = 1
       THEN /\ ret' = Top.val
            /\ rpc' = "done"
            /\ stack' = <<>>
       ELSE /\ stack' = Append(SubSeq(stack, 1, Len(stack) - 2),
                               AfterChild(stack[Len(stack) - 1], Top.val))
            /\ UNCHANGED <<ret, rpc>>
    /\ UNCHANGED <<docs, fetched>> /\ LocatorIdle

InitResolve ==
    /\ mode = "resolve"
    /\ runs = <<>>
    /\ docs = [a \in Addr |-> Unknown]
    /\ stack = <<Frame(Root)>>
    /\ fetched = <<>>
    /\ ret = NoValue
    /\ rpc = "run"

NextResolve == Fetch \/ Recurse \/ StackOverflow \/ LoopEnd \/ Return

ResolveSpec == InitResolve /\ [][NextResolve]_vars

\* A call that can take a step takes it.
ResolveFairSpec == ResolveSpec /\ WF_vars(NextResolve)

Next == Validate \/ FetchRobots \/ ScanRobots \/ Probe \/ Exhausted

Spec == Init /\ [][Next]_vars

SchemeSpec == InitScheme /\ [][Next]_vars

----------------------------------------------------------------------------
(* Claims about the Locator *)

\* The call that Spec follows.
Call == runs[1]

\* Index of the first line that begins with "Sitemap:", 0 when there is none.
FirstSitemapIdx(lines) ==
    IF \E i \in 1..Len(lines) : HasPrefix(lines[i], <<"Sitemap:">>)
    THEN CHOOSE i \in 1..Len(lines) :
           /\ HasPrefix(lines[i], <<"Sitemap:">>)
           /\ \A j \in 1..(i - 1) : ~HasPrefix(lines[j], <<"Sitemap:">>)
    ELSE 0

\* A line "Sitemap: <address>" with a non-empty address, and its address.
IsDeclaration(line) == Len(line) >= 3 /\ line[1] = "Sitemap:" /\ line[2] = " "
AddressOf(line) == SubSeq(line, 3, Len(line))

\* Index of the first line "Sitemap: <address>" with a non-empty address.
FirstDeclarationIdx(lines) ==
    IF \E i \in 1..Len(lines) : IsDeclaration(lines[i])
    THEN CHOOSE i \in 1..Len(lines) :
           IsDeclaration(lines[i]) /\ \A j \in 1..(i - 1) : ~IsDeclaration(lines[j])
    ELSE 0

\* The remainder of the first line that begins with "Sitemap:", the prefix and
\* one space after it removed; empty when no line begins with "Sitemap:".
DeclaredAddress(body) ==
    LET lines == Split(body)
        i == FirstSitemapIdx(lines)
        rest == SubSeq(lines[i], 2, Len(lines[i]))
    IN  IF i = 0 THEN EmptyStr
        ELSE IF rest # <<>> /\ rest[1] = " " THEN Tail(rest) ELSE rest

\* C2, as stated: when robots.txt comes with status 200 and a body that holds a
\* line "Sitemap: <address>" with a non-empty address, the call returns the
\* address of the first such line, and the GET of robots.txt is its only request.
C2_FirstDeclaredLineReturned ==
    [][\A i \in DOMAIN runs :
         LET lines == Split(runs[i].robots[1])
             k == FirstDeclarationIdx(lines)
         IN  (runs[i].pc = "scan" /\ k # 0)
             => /\ runs'[i].pc = "done"
                /\ runs'[i].err = NoErr
                /\ runs'[i].result = AddressOf(lines[k])
                /\ Len(runs'[i].log) = 1]_vars

\* C2, amended: when robots.txt comes with status 200 and the first line of its
\* body that begins with "Sitemap:" is "Sitemap: <address>" with a non-empty
\* address, the call returns that address, and the GET of robots.txt is its
\* only request.
C2_FirstSitemapLineReturned ==
    [][\A i \in DOMAIN runs :
         LET lines == Split(runs[i].robots[1])
             k == FirstSitemapIdx(lines)
         IN  (runs[i].pc = "scan" /\ k # 0 /\ IsDeclaration(lines[k]))
             => /\ runs'[i].pc = "done"
                /\ runs'[i].err = NoErr
                /\ runs'[i].result = AddressOf(lines[k])
                /\ Len(runs'[i].log) = 1
                /\ runs'[i].log[1].url = robotsURL(runs[i].domain)]_vars

\* A call returned the address declared on the second line of robots.txt.
C2_Witness ==
    /\ Call.pc = "done" /\ Call.err = NoErr
    /\ Call.robots = << <<"u", "\n", "Sitemap:", " ", "u", " ">> >>
    /\ Call.result = <<"u", " ">>
    /\ Len(Call.log) = 1 /\ Call.log[1].status = StatusOK

\* The candidates a call has probed are the first of sitemapLocations, in order,
\* one request each, after the one GET of robots.txt.
ProbedInOrder(r) ==
    /\ r.log # <<>> => r.log[1].url = robotsURL(r.domain)
    /\ \A j \in 2..Len(r.log) :
         /\ j - 1 <= Len(sitemapLocations)
         /\ r.log[j].url = <<"https://">> \o r.domain \o <<sitemapLocations[j - 1]>>

\* C3: with no sitemap declared by robots.txt and no request error, the
\* candidates are probed in list order, and the first that answers 200, at
\* position k, ends the call: it returns https://<host><path k>, candidates
\* 1..k were probed once each, in order, and none after k.
C3_FirstOkCandidateWins ==
    \A i \in DOMAIN runs :
      LET r == runs[i]
      IN  /\ ProbedInOrder(r)
          /\ \A j \in 2..Len(r.log) :
               (~r.log[j].err /\ r.log[j].status = StatusOK)
               => /\ j = Len(r.log)
                  /\ r.pc = "done" /\ r.err = NoErr
                  /\ r.result = <<"https://">> \o r.domain \o <<sitemapLocations[j - 1]>>
                  /\ \A m \in 1..(j - 1) : ~r.log[m].err
                  /\ \A m \in 2..(j - 1) : r.log[m].status # StatusOK
          /\ (r.pc = "done" /\ r.err = NoErr /\ Len(r.log) > 1)
             => r.log[Len(r.log)].status = StatusOK

\* The third candidate was the first to answer 200, after a robots.txt without
\* a Sitemap line.
C3_Witness ==
    /\ Call.input = <<"https://", "a", "/">>
    /\ Call.pc = "done"
    /\ Call.result = <<"https://", "a", "/sitemap1.xml">>
    /\ Len(Call.log) = 4
    /\ Call.log[1].status = StatusOK

\* C4: with no sitemap declared by robots.txt and a status other than 200 for
\* every candidate, the call fails with NotFound for the domain, after it
\* probed every entry of sitemapLocations, and returns no address.
C4_ExhaustedIsNotFound ==
    \A i \in DOMAIN runs :
      LET r == runs[i]
          n == Len(sitemapLocations)
          allRefused == /\ Len(r.log) = n + 1
                        /\ \A j \in 2..(n + 1) : ~r.log[j].err /\ r.log[j].status # StatusOK
      IN  /\ allRefused
             => /\ ProbedInOrder(r)
                /\ r.result = EmptyStr
                /\ \/ r.pc = "probe" /\ r.idx = n + 1
                   \/ r.pc = "done" /\ r.err = <<"NotFound", r.domain>>
          /\ (r.pc = "done" /\ r.err # NoErr /\ r.err[1] = "NotFound") => allRefused

\* Every candidate answered 404 and the call failed with NotFound.
C4_Witness ==
    /\ Call.input = <<"a">>
    /\ Call.pc = "done"
    /\ Call.err = <<"NotFound", <<"a">>>>
    /\ Len(Call.log) = Len(sitemapLocations) + 1
    /\ ~Call.log[1].err /\ Call.log[1].status # StatusOK

\* C9: a request error, on robots.txt or on a candidate, ends the call with
\* that error and is its last request; a status other than 200 never does: the
\* next candidate is probed, or, after the last candidate, the list is exhausted.
C9_ErrorEndsStatusContinues ==
    \A i \in DOMAIN runs :
      LET r == runs[i]
          n == Len(sitemapLocations)
      IN  \A j \in 1..Len(r.log) :
            /\ r.log[j].err
               => /\ j = Len(r.log)
                  /\ r.pc = "done"
                  /\ r.result = EmptyStr
                  /\ r.err = <<"FetchFailed", r.log[j].url>>
            /\ (~r.log[j].err /\ r.log[j].status # StatusOK)
               => /\ j < Len(r.log) =>
                       r.log[j + 1].url = candidateURL(r.domain, sitemapLocations[j])
                  /\ j = Len(r.log) =>
                       \/ r.pc = "probe" /\ r.idx = j
                       \/ r.pc = "done" /\ j = n + 1 /\ r.err = <<"NotFound", r.domain>>

\* robots.txt answered 404, the first candidate 404, and the second candidate
\* failed: the call ended with that error.
C9_Witness ==
    /\ Call.pc = "done"
    /\ Len(Call.log) = 3
    /\ ~Call.log[1].err /\ Call.log[1].status # StatusOK
    /\ ~Call.log[2].err /\ Call.log[2].status # StatusOK
    /\ Call.log[3].err
    /\ Call.err = <<"FetchFailed", <<"https://", "a", "/sitemap.xml">>>>

\* C10, as stated: what parseSitemapFromRobotsTxt extracts from a body is the
\* remainder of the first line that begins with "Sitemap:", that prefix and one
\* space after it removed, and is empty when no line begins with "Sitemap:".
C10_PrefixRemoved ==
    \A i \in DOMAIN runs :
      runs[i].pc = "scan"
      => parseSitemapFromRobotsTxt(runs[i].robots[1]) = DeclaredAddress(runs[i].robots[1])

\* C8: for a domain d without a scheme, the calls with d, with "http://" d and
\* with "https://" d, served by the same network, issue the same requests and
\* return the same result or the same kind of error.
C8_SchemeIrrelevant ==
    (/\ mode = "scheme"
     /\ ~HasPrefix(runs[1].input, <<"http://">>)
     /\ ~HasPrefix(runs[1].input, <<"https://">>)
     /\ runs[2].input = <<"http://">> \o runs[1].input
     /\ runs[3].input = <<"https://">> \o runs[1].input)
    => \A i \in {2, 3} :
         /\ runs[i].pc = runs[1].pc
         /\ runs[i].log = runs[1].log
         /\ runs[i].result = runs[1].result
         /\ (runs[i].err = NoErr) = (runs[1].err = NoErr)
         /\ runs[1].err # NoErr => runs[i].err[1] = runs[1].err[1]

\* The three calls for "a:8" found the same sitemap at the second candidate.
C8_Witness ==
    /\ mode = "scheme"
    /\ runs[1].input = <<"a", ":", "8">>
    /\ \A i \in 1..3 :
         /\ runs[i].pc = "done"
         /\ runs[i].result = <<"https://", "a", ":", "8", "/sitemap.xml">>
         /\ Len(runs[i].log) = 3

----------------------------------------------------------------------------
(* Claims about the Resolver *)

\* What resolving address a is to return when every fetch below it succeeds: the
\* url/loc list of a leaf; for an index, child by child in document order, the
\* child's marker followed by the child's own resolved list.
RECURSIVE Resolved(_)
RECURSIVE Interleaved(_)
Interleaved(children) ==
    IF children = <<>> THEN <<>>
    ELSE <<IndexMarker(Head(children))>> \o Resolved(Head(children))
         \o Interleaved(Tail(children))
Resolved(a) ==
    IF docs[a].urls # <<>> THEN docs[a].urls ELSE Interleaved(docs[a].sitemaps)

\* C1, as stated: when all the children of an index resolve, what parseSitemap
\* returns is, child by child in document order, the child's index marker
\* followed at once by that child's resolved URL list.
C1_MarkersInterleaved ==
    (rpc = "done" /\ ret.err = NoErr) => ret.urls = Resolved(Root)

\* An address is being resolved inside its own resolution.
CycleOnStack ==
    \E i, j \in 1..Len(stack) : i < j /\ stack[i].url = stack[j].url

\* C5: a fetched document with a non-empty url/loc list makes its call return
\* exactly that list, in document order, with no fetch after its own, also when
\* the document holds sitemap/loc entries.
C5_LeafReturnedVerbatim ==
    /\ \A k \in 1..Len(stack) :
         LET f == stack[k]
             d == docs[f.url]
         IN  (f.phase # "fetch" /\ d.kind = "xml" /\ d.urls # <<>>)
             => /\ k = Len(stack)
                /\ f.phase = "ret"
                /\ f.val = [isNil |-> FALSE, urls |-> d.urls, err |-> NoErr]
                /\ fetched[Len(fetched)] = f.url
    /\ (rpc = "done" /\ docs[Root].kind = "xml" /\ docs[Root].urls # <<>>)
       => /\ ret = [isNil |-> FALSE, urls |-> docs[Root].urls, err |-> NoErr]
          /\ fetched = <<Root>>

\* The root document holds two url/loc entries and a sitemap/loc entry, and the
\* call returned the two, in order, after one fetch.
C5_Witness ==
    /\ rpc = "done"
    /\ docs[Root].sitemaps = <<"/a.xml">>
    /\ ret.urls = <<Loc(Root, 1), Loc(Root, 2)>>
    /\ fetched = <<Root>>
    /\ docs["/a.xml"] = Unknown

\* C6, as stated: every call of parseSitemap returns, also when an index names
\* itself or one of its ancestors.
C6_AlwaysReturns == <>(rpc = "done")

\* C6, amended: every call of parseSitemap returns, unless an index names itself
\* or one of its ancestors (an address is then resolved inside its own
\* resolution).
C6_ReturnsUnlessCyclic == <>(rpc = "done" \/ CycleOnStack)

\* An index of an index of a leaf was resolved.
C6_Witness ==
    /\ rpc = "done" /\ ret.err = NoErr
    /\ fetched = <<Root, "/a.xml", "/b.xml">>
    /\ docs[Root].sitemaps = <<"/a.xml">>
    /\ docs["/a.xml"].sitemaps = <<"/b.xml">>
    /\ ret.urls = <<IndexMarker("/a.xml"), IndexMarker("/b.xml"), Loc("/b.xml", 1)>>

\* C7: when the resolution of a child, at any depth, fails, the root call
\* returns that error and a nil list, and nothing is fetched after the fetch
\* that failed.
C7_ChildErrorAborts ==
    /\ \A j \in 1..Len(fetched) :
         docs[fetched[j]].kind # "xml" => j = Len(fetched)
    /\ (rpc = "done" /\ ret.err # NoErr)
       => /\ ret.isNil /\ ret.urls = <<>>
          /\ LET a == fetched[Len(fetched)]
             IN  \/ docs[a].kind = "fetcherr" /\ ret.err = <<"FetchFailed", a>>
                 \/ docs[a].kind = "parseerr" /\ ret.err = <<"ParseFailed", a>>
    /\ (rpc = "done" /\ ret.err = NoErr)
       => ~ret.isNil /\ \A j \in 1..Len(fetched) : docs[fetched[j]].kind = "xml"

\* The first child of the root's first child failed: the root call returned
\* that error, and neither index had its second child fetched.
C7_Witness ==
    /\ rpc = "done"
    /\ ret = [isNil |-> TRUE, urls |-> <<>>, err |-> <<"ParseFailed", "/b.xml">>]
    /\ docs[Root].sitemaps = <<"/a.xml", "/b.xml">>
    /\ docs["/a.xml"].sitemaps = <<"/b.xml", "/b.xml">>
    /\ fetched = <<Root, "/a.xml", "/b.xml">>

====
